---- MODULE Spec2Model ----
(***************************************************************************)
(* Model of generate_topology.py: LLDP topology assembly, rendering,       *)
(* caching and diffing.                                                    *)
(*                                                                         *)
(* Interface names are sequences of one-character strings so that          *)
(* str.startswith and str.replace are computed, not assumed.  Device       *)
(* names are never taken apart by the program and stay atomic strings.     *)
(***************************************************************************)
EXTENDS Integers, Sequences, FiniteSets, TLC

VARIABLES
    \* ---- good_luck_have_fun: one process run after another ----
    pc,                 \* position inside good_luck_have_fun
    run,                \* number of the current run (1-based)
    raised,             \* name of the exception that ended the run, or "none"
    nornir_job_result,  \* get_host_data_result (line 301)
    GLOBAL_LLDP_DATA,   \* line 302
    GLOBAL_FACTS,       \* line 302
    TOPOLOGY_DETAILS,   \* lines 303-304
    TOPOLOGY_DICT,      \* line 305
    CACHED_TOPOLOGY,    \* line 306
    cache_file,         \* the file cached_topology.json
    topology_file,      \* the file topology.js
    console,            \* what the run has printed
    cache_log,          \* read/write operations of this run on cache_file
    last_run,           \* outcome of the previous run
    \* ---- get_topology_diff exercised on its own ----
    cached, current, diff, diff_swapped, diff_pc,
    \* ---- if_fullname / if_shortname exercised on their own ----
    ifname, fullname, shortname, if_pc

run_vars == <<pc, run, raised, nornir_job_result, GLOBAL_LLDP_DATA,
              GLOBAL_FACTS, TOPOLOGY_DETAILS, TOPOLOGY_DICT, CACHED_TOPOLOGY,
              cache_file, topology_file, console, cache_log, last_run>>
diff_vars == <<cached, current, diff, diff_swapped, diff_pc>>
if_vars == <<ifname, fullname, shortname, if_pc>>
vars == <<run_vars, diff_vars, if_vars>>

\* Value of a variable that a specification does not use.
Unused == "unused"

(***************************************************************************)
(* Strings                                                                 *)
(***************************************************************************)
\* str.startswith
startswith(s, p) == Len(p) <= Len(s) /\ SubSeq(s, 1, Len(p)) = p

\* str.replace(old, new): every non-overlapping occurrence, left to right.
RECURSIVE replace(_, _, _)
replace(s, old, new) ==
    IF Len(s) = 0 THEN <<>>
    ELSE IF startswith(s, old)
         THEN new \o replace(SubSeq(s, Len(old) + 1, Len(s)), old, new)
         ELSE <<Head(s)>> \o replace(Tail(s), old, new)

\* Python's "x in list".
InList(x, seq) == \E i \in 1..Len(seq) : seq[i] = x

Eth == <<"E","t","h">>
Fa == <<"F","a">>
Gi == <<"G","i">>
Te == <<"T","e">>
Ethernet == <<"E","t","h","e","r","n","e","t">>
FastEthernet == <<"F","a","s","t">> \o Ethernet
GigabitEthernet == <<"G","i","g","a","b","i","t">> \o Ethernet
TenGigabitEthernet == <<"T","e","n">> \o GigabitEthernet

\* The dict in insertion order, which is the order .items() yields.
interface_full_name_map ==
    << <<Eth, Ethernet>>, <<Fa, FastEthernet>>,
       <<Gi, GigabitEthernet>>, <<Te, TenGigabitEthernet>> >>

RECURSIVE if_fullname_loop(_, _)
if_fullname_loop(name, i) ==
    IF i > Len(interface_full_name_map) THEN name
    ELSE LET k == interface_full_name_map[i][1]
             v == interface_full_name_map[i][2]
         IN  IF startswith(name, v) THEN name
             ELSE IF startswith(name, k) THEN replace(name, k, v)
             ELSE if_fullname_loop(name, i + 1)

if_fullname(name) == if_fullname_loop(name, 1)

RECURSIVE if_shortname_loop(_, _)
if_shortname_loop(name, i) ==
    IF i > Len(interface_full_name_map) THEN name
    ELSE LET k == interface_full_name_map[i][1]
             v == interface_full_name_map[i][2]
         IN  IF startswith(name, v) THEN replace(name, v, k)
             ELSE if_shortname_loop(name, i + 1)

\* if_shortname whose final "return ifname" sits inside the loop body: only
\* the first table entry is ever tried.
if_shortname_first_entry_only(name) ==
    IF startswith(name, interface_full_name_map[1][2])
    THEN replace(name, interface_full_name_map[1][2],
                 interface_full_name_map[1][1])
    ELSE name

if_shortname(name) == if_shortname_loop(name, 1)

(***************************************************************************)
(* Python values.  A dict that is iterated is a sequence of <<key, value>>  *)
(* pairs in insertion order; a dict that is only subscripted (facts, a     *)
(* neighbor record) is a record; a list is a sequence.                     *)
(***************************************************************************)
\* bool(v) for a list, a dict or a record: non-empty.
Truthy(v) == DOMAIN v # {}

DictHas(d, k) == \E i \in 1..Len(d) : d[i][1] = k
DictGet(d, k) == d[CHOOSE i \in 1..Len(d) : d[i][1] = k][2]
\* d[k] = v: an existing key keeps its place, a new key goes last.
DictSet(d, k, v) ==
    IF DictHas(d, k)
    THEN [i \in 1..Len(d) |-> IF d[i][1] = k THEN <<k, v>> ELSE d[i]]
    ELSE Append(d, <<k, v>>)

icon_type_map ==
    << <<"router", "router">>, <<"switch", "switch">>,
       <<"bridge", "switch">>, <<"station", "host">> >>

\* get_icon_type returning the capability itself when the map has no entry.
get_icon_type_no_default(device_cap_name) ==
    IF DictHas(icon_type_map, device_cap_name)
    THEN DictGet(icon_type_map, device_cap_name)
    ELSE device_cap_name

get_icon_type(device_cap_name) ==
    IF DictHas(icon_type_map, device_cap_name)
    THEN DictGet(icon_type_map, device_cap_name)
    ELSE "unknown"

(***************************************************************************)
(* normalize_result                                                        *)
(***************************************************************************)
\* Lines 105-112: FQDN, else hostname, else the inventory name.
device_fqdn(device, facts) ==
    IF facts.fqdn # "" THEN facts.fqdn
    ELSE IF facts.hostname # "" THEN facts.hostname
    ELSE device

\* One iteration of the loop of line 95 on <<global_lldp_data, global_facts>>.
normalize_device(dicts, output) ==
    IF output.failed
    THEN << DictSet(dicts[1], output.device, <<>>),
            DictSet(dicts[2], output.device, <<>>) >>
    ELSE LET key == device_fqdn(output.device, output.facts)
         IN  << DictSet(dicts[1], key, output.lldp_neighbors_detail),
                DictSet(dicts[2], key, output.facts) >>

RECURSIVE normalize_loop(_, _, _)
normalize_loop(result, i, dicts) ==
    IF i > Len(result) THEN dicts
    ELSE normalize_loop(result, i + 1, normalize_device(dicts, result[i]))

\* Returns <<global_lldp_data, global_facts>>.
normalize_result(result) == normalize_loop(result, 1, << <<>>, <<>> >>)

(***************************************************************************)
(* extract_lldp_details.  The accumulator holds the three locals and the   *)
(* exception, if any, that ended the function.                             *)
(***************************************************************************)
\* Lines 147-150.
link_is_already_there(local_end, remote_end, global_interconnections) ==
    \/ InList(<<local_end, remote_end>>, global_interconnections)
    \/ InList(<<remote_end, local_end>>, global_interconnections)

\* Lines 136-156: one neighbor record.
extract_neighbor(acc, host, interface, neighbor) ==
    IF acc.raised # "none" THEN acc
    ELSE IF neighbor.remote_system_name = "" THEN acc
    ELSE IF Len(neighbor.remote_system_enable_capab) = 0
    THEN \* list index out of range at line 140
         [acc EXCEPT !.raised = "IndexError",
                     !.discovered_hosts = @ \cup {neighbor.remote_system_name}]
    ELSE LET local_end == <<host, interface>>
             remote_end == <<neighbor.remote_system_name,
                             if_fullname(neighbor.remote_port)>>
             seen == [acc EXCEPT
                        !.discovered_hosts =
                            @ \cup {neighbor.remote_system_name},
                        !.lldp_capabilities_dict =
                            DictSet(@, neighbor.remote_system_name,
                                    neighbor.remote_system_enable_capab[1])]
         IN  IF link_is_already_there(local_end, remote_end,
                                      acc.global_interconnections)
             THEN seen
             ELSE [seen EXCEPT !.global_interconnections =
                                   Append(@, <<local_end, remote_end>>)]

RECURSIVE extract_neighbors(_, _, _, _, _)
extract_neighbors(acc, host, interface, neighbors, j) ==
    IF j > Len(neighbors) THEN acc
    ELSE extract_neighbors(extract_neighbor(acc, host, interface, neighbors[j]),
                           host, interface, neighbors, j + 1)

RECURSIVE extract_interfaces(_, _, _, _)
extract_interfaces(acc, host, lldp_data, i) ==
    IF i > Len(lldp_data) THEN acc
    ELSE extract_interfaces(
             extract_neighbors(acc, host, lldp_data[i][1], lldp_data[i][2], 1),
             host, lldp_data, i + 1)

\* Lines 129-134 with the test of line 132 ahead of the add of line 131.
extract_host_skip_silent(acc, host, lldp_data) ==
    IF acc.raised # "none" THEN acc
    ELSE IF host = "" THEN acc
    ELSE IF ~Truthy(lldp_data) THEN acc
    ELSE extract_interfaces([acc EXCEPT !.discovered_hosts = @ \cup {host}],
                            host, lldp_data, 1)

\* Lines 129-134: one host of lldp_data_dict.
extract_host(acc, host, lldp_data) ==
    IF acc.raised # "none" THEN acc
    ELSE IF host = "" THEN acc
    ELSE LET added == [acc EXCEPT !.discovered_hosts = @ \cup {host}]
         IN  IF ~Truthy(lldp_data) THEN added
             ELSE extract_interfaces(added, host, lldp_data, 1)

RECURSIVE extract_hosts(_, _, _)
extract_hosts(acc, lldp_data_dict, i) ==
    IF i > Len(lldp_data_dict) THEN acc
    ELSE extract_hosts(
             extract_host(acc, lldp_data_dict[i][1], lldp_data_dict[i][2]),
             lldp_data_dict, i + 1)

extract_lldp_details(lldp_data_dict) ==
    extract_hosts([discovered_hosts |-> {},
                   global_interconnections |-> <<>>,
                   lldp_capabilities_dict |-> <<>>,
                   raised |-> "none"],
                  lldp_data_dict, 1)

(***************************************************************************)
(* generate_topology_json.  discovered_hosts is a set of str, whose         *)
(* iteration order Python does not fix: the caller passes one enumeration  *)
(* of it, hosts_in_order.                                                  *)
(***************************************************************************)
\* host_id incremented (line 186) before it is used (lines 178-180).
host_id_incremented_first(position) == position

\* host_id at the position-th iteration (lines 169, 178-180, 186).
host_id_at(position) == position - 1

\* Lines 173-177.
device_model(facts, host) ==
    IF DictHas(facts, host) /\ Truthy(DictGet(facts, host))
    THEN IF "model" \in DOMAIN DictGet(facts, host)
         THEN DictGet(facts, host).model ELSE "n/a"
    ELSE "n/a"
device_serial(facts, host) ==
    IF DictHas(facts, host) /\ Truthy(DictGet(facts, host))
    THEN IF "serial_number" \in DOMAIN DictGet(facts, host)
         THEN DictGet(facts, host).serial_number ELSE "n/a"
    ELSE "n/a"

\* lldp_capabilities_dict.get(host, '')
capability_of(lldp_capabilities_dict, host) ==
    IF DictHas(lldp_capabilities_dict, host)
    THEN DictGet(lldp_capabilities_dict, host) ELSE ""

\* Returns the Topology, or the exception of a host_id_map lookup.
generate_topology_json(hosts_in_order, interconnections, lldp_capabilities_dict, facts) ==
    LET host_id_map(host) ==
            host_id_at(CHOOSE i \in 1..Len(hosts_in_order) : hosts_in_order[i] = host)
        known(host) == InList(host, hosts_in_order)
    IN  IF \E i \in 1..Len(interconnections) :
              \/ ~known(interconnections[i][1][1])
              \/ ~known(interconnections[i][2][1])
        THEN [raised |-> "KeyError", topology_dict |-> <<>>]
        ELSE [raised |-> "none",
              topology_dict |->
                [nodes |-> [i \in 1..Len(hosts_in_order) |->
                    [id |-> host_id_at(i),
                     name |-> hosts_in_order[i],
                     model |-> device_model(facts, hosts_in_order[i]),
                     serial_number |-> device_serial(facts, hosts_in_order[i]),
                     icon |-> get_icon_type(capability_of(lldp_capabilities_dict,
                                                          hosts_in_order[i]))]],
                 links |-> [i \in 1..Len(interconnections) |->
                    [id |-> i - 1,
                     source |-> host_id_map(interconnections[i][1][1]),
                     target |-> host_id_map(interconnections[i][2][1]),
                     srcIfName |-> if_shortname(interconnections[i][1][2]),
                     srcDevice |-> interconnections[i][1][1],
                     tgtIfName |-> if_shortname(interconnections[i][2][2]),
                     tgtDevice |-> interconnections[i][2][1]]]]]

(***************************************************************************)
(* Specification SpecIfName: a port name taken through if_fullname (as     *)
(* extract_lldp_details does with remote_port) and then through            *)
(* if_shortname (as generate_topology_json does with a link end).          *)
(***************************************************************************)
MaxSuffixLen == 2
SuffixChars == {"0", "/", "1", "G", "i", "e"}
Suffixes == UNION { [1..n -> SuffixChars] : n \in 0..MaxSuffixLen }
Prefixes == {<<>>, <<"P","o">>, Eth, Fa, Gi, Te,
             Ethernet, FastEthernet, GigabitEthernet, TenGigabitEthernet}
InterfaceNames == { p \o x : p \in Prefixes, x \in Suffixes }

HasShortPrefix(name) ==
    \E i \in 1..Len(interface_full_name_map) :
        startswith(name, interface_full_name_map[i][1])
HasLongPrefix(name) ==
    \E i \in 1..Len(interface_full_name_map) :
        startswith(name, interface_full_name_map[i][2])

RunUnused ==
    /\ pc = Unused /\ run = Unused /\ raised = Unused
    /\ nornir_job_result = Unused /\ GLOBAL_LLDP_DATA = Unused
    /\ GLOBAL_FACTS = Unused /\ TOPOLOGY_DETAILS = Unused
    /\ TOPOLOGY_DICT = Unused /\ CACHED_TOPOLOGY = Unused
    /\ cache_file = Unused /\ topology_file = Unused /\ console = Unused
    /\ cache_log = Unused /\ last_run = Unused
DiffUnused ==
    /\ cached = Unused /\ current = Unused /\ diff = Unused
    /\ diff_swapped = Unused /\ diff_pc = Unused
IfUnused ==
    /\ ifname = Unused /\ fullname = Unused /\ shortname = Unused
    /\ if_pc = Unused

InitIfName ==
    /\ ifname \in InterfaceNames
    /\ fullname = <<>> /\ shortname = <<>> /\ if_pc = "input"
    /\ RunUnused /\ DiffUnused

ToLongForm ==
    /\ if_pc = "input"
    /\ fullname' = if_fullname(ifname)
    /\ if_pc' = "long"
    /\ UNCHANGED <<ifname, shortname, run_vars, diff_vars>>

ToShortForm ==
    /\ if_pc = "long"
    /\ shortname' = if_shortname(fullname)
    /\ if_pc' = "short"
    /\ UNCHANGED <<ifname, fullname, run_vars, diff_vars>>

NextIfName == ToLongForm \/ ToShortForm
SpecIfName == InitIfName /\ [][NextIfName]_vars

\* C7 as stated: the round trip gives back every name that starts with a
\* short prefix of the table and every name already in long form.
C7_RoundTripAsClaimed ==
    (if_pc = "short" /\ (HasShortPrefix(ifname) \/ HasLongPrefix(ifname)))
        => shortname = ifname

\* C7 amended: the round trip gives back every name that starts with a short
\* prefix and is not already in long form; a name already in long form is
\* left alone by if_fullname and abbreviated by if_shortname, so the result
\* starts with the short prefix, is shorter than the name and differs from it.
C7_RoundTrip ==
    if_pc = "short" =>
        /\ (HasShortPrefix(ifname) /\ ~HasLongPrefix(ifname))
               => shortname = ifname
        /\ HasLongPrefix(ifname)
               => /\ fullname = ifname
                  /\ shortname # ifname
                  /\ Len(shortname) < Len(ifname)
                  /\ HasShortPrefix(shortname)
                  /\ ~HasLongPrefix(shortname)
        /\ (~HasShortPrefix(ifname) /\ ~HasLongPrefix(ifname))
               => fullname = ifname /\ shortname = ifname

\* The short-prefixed name Gi0/ went through both conversions and was
\* expanded on the way.
C7_Witness ==
    /\ if_pc = "short"
    /\ ifname = Gi \o <<"0", "/">>
    /\ fullname = GigabitEthernet \o <<"0", "/">>
    /\ shortname = ifname

(***************************************************************************)
(* get_topology_diff                                                       *)
(***************************************************************************)
\* The list comprehensions of lines 235-238.
link_pairs(topology) ==
    [i \in 1..Len(topology.links) |->
        << <<topology.links[i].srcDevice, topology.links[i].srcIfName>>,
           <<topology.links[i].tgtDevice, topology.links[i].tgtIfName>> >>]
node_names(topology) ==
    [i \in 1..Len(topology.nodes) |-> <<topology.nodes[i].name>>]

\* Lines 241-244.
diff_nodes_added(cached_nodes, nodes) ==
    LET IsNew(node) == ~InList(node, cached_nodes)
    IN  SelectSeq(nodes, IsNew)

\* Lines 245-248, comparing the cached list with itself.
diff_nodes_deleted_self(cached_nodes, nodes) ==
    LET IsGone(node) == ~InList(node, cached_nodes)
    IN  SelectSeq(cached_nodes, IsGone)

\* Lines 245-248.
diff_nodes_deleted(cached_nodes, nodes) ==
    LET IsGone(node) == ~InList(node, nodes)
    IN  SelectSeq(cached_nodes, IsGone)

\* Lines 249-251.
diff_links_added(cached_links, links) ==
    LET IsNew(l) == /\ ~InList(<<l[1], l[2]>>, cached_links)
                    /\ ~InList(<<l[2], l[1]>>, cached_links)
    IN  SelectSeq(links, IsNew)

\* Lines 252-254 without the test of the reversed pair.
diff_links_deleted_one_way(cached_links, links) ==
    LET IsGone(l) == ~InList(<<l[1], l[2]>>, links)
    IN  SelectSeq(cached_links, IsGone)

\* Lines 252-254.
diff_links_deleted(cached_links, links) ==
    LET IsGone(l) == /\ ~InList(<<l[1], l[2]>>, links)
                     /\ ~InList(<<l[2], l[1]>>, links)
    IN  SelectSeq(cached_links, IsGone)

\* Returns <<diff_nodes, diff_links>>.
get_topology_diff(cached_topology, current_topology) ==
    LET cached_links == link_pairs(cached_topology)
        cached_nodes == node_names(cached_topology)
        links == link_pairs(current_topology)
        nodes == node_names(current_topology)
    IN  << [added |-> diff_nodes_added(cached_nodes, nodes),
            deleted |-> diff_nodes_deleted(cached_nodes, nodes)],
           [added |-> diff_links_added(cached_links, links),
            deleted |-> diff_links_deleted(cached_links, links)] >>

(***************************************************************************)
(* JSON text and the values json.loads builds from it.  A document is a    *)
(* tree of tagged nodes; a loaded value keeps its Python type.             *)
(***************************************************************************)
\* One "key": value member of an object.
Member(key, value) == [key |-> key, value |-> value]
JObject(members) == [t |-> "object", v |-> members]
JArray(items) == [t |-> "array", v |-> items]
JString(str) == [t |-> "string", v |-> str]
JNumber(n) == [t |-> "number", v |-> n]
JNull == [t |-> "null", v |-> <<>>]

\* json.dumps(topology_json, indent=4, sort_keys=True): keys in sorted order.
dumps_node(node) ==
    JObject(<< Member("icon", JString(node.icon)),
               Member("id", JNumber(node.id)),
               Member("model", JString(node.model)),
               Member("name", JString(node.name)),
               Member("serial_number", JString(node.serial_number)) >>)
dumps_link(link) ==
    JObject(<< Member("id", JNumber(link.id)),
               Member("source", JNumber(link.source)),
               Member("srcDevice", JString(link.srcDevice)),
               Member("srcIfName", JString(link.srcIfName)),
               Member("target", JNumber(link.target)),
               Member("tgtDevice", JString(link.tgtDevice)),
               Member("tgtIfName", JString(link.tgtIfName)) >>)
json_dumps(topology_json) ==
    JObject(<< Member("links",
                      JArray([i \in 1..Len(topology_json.links) |->
                                 dumps_link(topology_json.links[i])])),
               Member("nodes",
                      JArray([i \in 1..Len(topology_json.nodes) |->
                                 dumps_node(topology_json.nodes[i])])) >>)

PyDict(f) == [t |-> "dict", v |-> f]
PyList(items) == [t |-> "list", v |-> items]
PyEmptyDict == PyDict(<<>>)

\* json.loads of a well-formed document; a repeated key keeps its last value.
RECURSIVE json_loads(_)
json_loads(doc) ==
    CASE doc.t = "object" ->
            PyDict([k \in {doc.v[i].key : i \in 1..Len(doc.v)} |->
                      json_loads(doc.v[CHOOSE i \in 1..Len(doc.v) :
                                          /\ doc.v[i].key = k
                                          /\ \A j \in (i+1)..Len(doc.v) :
                                                doc.v[j].key # k].value)])
      [] doc.t = "array" -> PyList([i \in 1..Len(doc.v) |-> json_loads(doc.v[i])])
      [] doc.t = "string" -> [t |-> "str", v |-> doc.v]
      [] doc.t = "number" -> [t |-> "int", v |-> doc.v]
      [] doc.t = "null" -> [t |-> "NoneType", v |-> <<>>]

\* bool(value) of a loaded value.
PyTruthy(value) ==
    CASE value.t = "dict" -> DOMAIN value.v # {}
      [] value.t = "list" -> Len(value.v) > 0
      [] value.t = "str" -> value.v # ""
      [] value.t = "int" -> value.v # 0
      [] value.t = "NoneType" -> FALSE

\* A loaded value with the type tags dropped: dicts as records, lists as
\* sequences.
RECURSIVE py_plain(_)
py_plain(value) ==
    CASE value.t = "dict" -> [k \in DOMAIN value.v |-> py_plain(value.v[k])]
      [] value.t = "list" -> [i \in 1..Len(value.v) |-> py_plain(value.v[i])]
      [] OTHER -> value.v

(***************************************************************************)
(* The two files.  cached_topology.json is absent, a directory (the case   *)
(* of "exists and is not a regular file" that is modelled), or a regular   *)
(* file whose text either is no JSON or is a JSON document.                *)
(***************************************************************************)
AbsentFile == [kind |-> "absent"]
Directory == [kind |-> "directory"]
TextFile(content) == [kind |-> "file", content |-> content]
NotJson == [syntax |-> "invalid"]
Json(doc) == [syntax |-> "json", value |-> doc]

\* read_cached_topology with the test of line 215 inverted.
read_cached_topology_inverted(file) ==
    IF file.kind # "absent" THEN PyEmptyDict
    ELSE IF file.kind # "file" THEN PyEmptyDict
    ELSE IF file.content.syntax # "json" THEN PyEmptyDict
    ELSE json_loads(file.content.value)

read_cached_topology(file) ==
    IF file.kind = "absent" THEN PyEmptyDict
    ELSE IF file.kind # "file" THEN PyEmptyDict
    ELSE IF file.content.syntax # "json" THEN PyEmptyDict
    ELSE json_loads(file.content.value)

\* open(dst, 'w') and the writes of lines 210-211; opening a directory for
\* writing raises.
write_topology_cache(topology_json, file) ==
    IF file.kind = "directory"
    THEN [raised |-> "IsADirectoryError", file |-> file]
    ELSE [raised |-> "none", file |-> TextFile(Json(json_dumps(topology_json)))]

TOPOLOGY_FILE_HEAD == "\n\nvar topologyData = "

\* Lines 203-206: the header, the JSON text, the terminator.
write_topology_file(topology_json) ==
    [kind |-> "file",
     content |-> [header |-> TOPOLOGY_FILE_HEAD,
                  value |-> json_dumps(topology_json),
                  tail |-> ";"]]

\* The exception, if any, of the subscripts cached[key][i][field] that
\* get_topology_diff evaluates for one of its two comprehensions over cached.
subscript_error(value, key, fields) ==
    IF value.t # "dict" THEN "TypeError"
    ELSE IF key \notin DOMAIN value.v THEN "KeyError"
    ELSE LET items == value.v[key]
         IN  IF items.t \in {"int", "NoneType"} THEN "TypeError"
             ELSE IF items.t # "list"
                  THEN IF PyTruthy(items) THEN "TypeError" ELSE "none"
             ELSE IF \A i \in 1..Len(items.v) :
                        /\ items.v[i].t = "dict"
                        /\ fields \subseteq DOMAIN items.v[i].v
                  THEN "none"
             ELSE LET first == CHOOSE i \in 1..Len(items.v) :
                                  /\ ~( /\ items.v[i].t = "dict"
                                        /\ fields \subseteq DOMAIN items.v[i].v )
                                  /\ \A j \in 1..(i-1) :
                                        /\ items.v[j].t = "dict"
                                        /\ fields \subseteq DOMAIN items.v[j].v
                  IN  IF items.v[first].t = "dict" THEN "KeyError"
                      ELSE "TypeError"

\* Lines 235-236 on a loaded cache.
cached_error(value) ==
    LET links == subscript_error(value, "links",
                     {"srcDevice", "srcIfName", "tgtDevice", "tgtIfName"})
    IN  IF links # "none" THEN links
        ELSE subscript_error(value, "nodes", {"name"})

\* What lines 235-236 iterate over when they raise nothing.
cached_view(value) ==
    [links |-> IF value.v["links"].t = "list"
               THEN py_plain(value.v["links"]) ELSE <<>>,
     nodes |-> IF value.v["nodes"].t = "list"
               THEN py_plain(value.v["nodes"]) ELSE <<>>]

\* print_diff: the lines printed, each a text and the item it names.
Line(text, item) == [text |-> text, item |-> item]
Section(title, items) ==
    IF items = <<>> THEN <<>>
    ELSE << Line("", <<>>), Line("^^^", <<>>), Line(title, <<>>),
            Line("vvv", <<>>) >>
         \o [i \in 1..Len(items) |-> Line("item", items[i])]
print_diff(d) ==
    IF /\ d[1].added = <<>> /\ d[1].deleted = <<>>
       /\ d[2].added = <<>> /\ d[2].deleted = <<>>
    THEN << Line("no changes found in the topology", <<>>) >>
    ELSE << Line("changes found in the topology", <<>>) >>
         \o Section("new network devices", d[1].added)
         \o Section("deleted network devices", d[1].deleted)
         \o Section("new links between devices", d[2].added)
         \o Section("deleted links between devices", d[2].deleted)
         \o << Line("", <<>>) >>

(***************************************************************************)
(* Specification SpecDiff: get_topology_diff on two Topologies, in both    *)
(* argument orders.                                                        *)
(***************************************************************************)
MaxDiffLinks == 2
DiffDevices == {"a", "b", "c"}
DiffNodeOrders ==
    {<<>>, <<"a">>, <<"b">>, <<"c">>, <<"a","b">>, <<"b","a">>,
     <<"a","c">>, <<"c","b">>, <<"a","b","c">>, <<"c","a","b">>}
Port(n) == Gi \o <<"0", "/", n>>
DiffLinkPairs ==
    { << <<"a", Port("1")>>, <<"b", Port("2")>> >>,
      << <<"b", Port("2")>>, <<"a", Port("1")>> >>,
      << <<"a", Port("1")>>, <<"c", Port("3")>> >>,
      << <<"c", Port("3")>>, <<"a", Port("1")>> >> }
DiffLinkLists == UNION { [1..n -> DiffLinkPairs] : n \in 0..MaxDiffLinks }

IndexOf(seq, x) == CHOOSE i \in 1..Len(seq) : seq[i] = x

\* A Topology as generate_topology_json lays it out, from a node order and a
\* list of link endpoint pairs.
MakeTopology(order, pairs) ==
    [nodes |-> [i \in 1..Len(order) |->
                   [id |-> i - 1, name |-> order[i],
                    model |-> IF i = 1 THEN "X" ELSE "n/a",
                    serial_number |-> IF i = 1 THEN "1" ELSE "n/a",
                    icon |-> IF i = 1 THEN "switch" ELSE "unknown"]],
     links |-> [i \in 1..Len(pairs) |->
                   [id |-> i - 1,
                    source |-> IndexOf(order, pairs[i][1][1]) - 1,
                    target |-> IndexOf(order, pairs[i][2][1]) - 1,
                    srcDevice |-> pairs[i][1][1], srcIfName |-> pairs[i][1][2],
                    tgtDevice |-> pairs[i][2][1], tgtIfName |-> pairs[i][2][2]]]]

Range(seq) == { seq[i] : i \in 1..Len(seq) }
DiffTopologies ==
    { MakeTopology(o, l) :
        <<o, l>> \in { x \in DiffNodeOrders \X DiffLinkLists :
                         \A i \in 1..Len(x[2]) :
                             /\ x[2][i][1][1] \in Range(x[1])
                             /\ x[2][i][2][1] \in Range(x[1]) } }

InitDiff ==
    /\ cached \in DiffTopologies
    /\ current \in DiffTopologies
    /\ diff = <<>> /\ diff_swapped = <<>> /\ diff_pc = "input"
    /\ RunUnused /\ IfUnused

DiffForward ==
    /\ diff_pc = "input"
    /\ diff' = get_topology_diff(cached, current)
    /\ diff_pc' = "forward"
    /\ UNCHANGED <<cached, current, diff_swapped, run_vars, if_vars>>

DiffBackward ==
    /\ diff_pc = "forward"
    /\ diff_swapped' = get_topology_diff(current, cached)
    /\ diff_pc' = "both"
    /\ UNCHANGED <<cached, current, diff, run_vars, if_vars>>

NextDiff == DiffForward \/ DiffBackward
SpecDiff == InitDiff /\ [][NextDiff]_vars

\* C3: the added lists of get_topology_diff(P, C) are the deleted lists of
\* get_topology_diff(C, P), and the deleted lists of the first are the added
\* lists of the second, for nodes and for links.
C3_DiffSymmetric ==
    diff_pc = "both" =>
        /\ diff[1].added = diff_swapped[1].deleted
        /\ diff[1].deleted = diff_swapped[1].added
        /\ diff[2].added = diff_swapped[2].deleted
        /\ diff[2].deleted = diff_swapped[2].added

\* Both orders were diffed on two Topologies of which the first has a node
\* and a link that the second lacks, and that share a link stored in opposite
\* endpoint orders.
C3_Witness ==
    /\ diff_pc = "both"
    /\ diff[1].deleted # <<>> /\ diff[2].deleted # <<>>
    /\ diff_swapped[1].added # <<>> /\ diff_swapped[2].added # <<>>
    /\ \E i \in 1..Len(cached.links), j \in 1..Len(current.links) :
          /\ link_pairs(cached)[i][1] = link_pairs(current)[j][2]
          /\ link_pairs(cached)[i][2] = link_pairs(current)[j][1]

NameSet(topology) == { topology.nodes[i].name : i \in 1..Len(topology.nodes) }
PairSet(topology) == Range(link_pairs(topology))
Reversed(l) == <<l[2], l[1]>>
\* The members of seq that satisfy no test but membership in keep, in order.
Filter(seq, keep) ==
    LET Test(x) == x \in keep
    IN  SelectSeq(seq, Test)

\* C4: a node is reported added exactly when its name is in current and not
\* in previous, deleted exactly when it is in previous and not in current;
\* a link is reported added exactly when its endpoint pair is in current and
\* neither it nor its reverse is in previous, deleted exactly when it is in
\* previous and neither orientation is in current.  Same names and same links
\* up to endpoint order give four empty lists.
C4_DiffIsSetDifference ==
    diff_pc # "input" =>
        LET addedNames == { <<n>> : n \in NameSet(current) \ NameSet(cached) }
            deletedNames == { <<n>> : n \in NameSet(cached) \ NameSet(current) }
            addedPairs == { l \in PairSet(current) :
                              /\ l \notin PairSet(cached)
                              /\ Reversed(l) \notin PairSet(cached) }
            deletedPairs == { l \in PairSet(cached) :
                                /\ l \notin PairSet(current)
                                /\ Reversed(l) \notin PairSet(current) }
        IN  /\ diff[1].added = Filter(node_names(current), addedNames)
            /\ diff[1].deleted = Filter(node_names(cached), deletedNames)
            /\ diff[2].added = Filter(link_pairs(current), addedPairs)
            /\ diff[2].deleted = Filter(link_pairs(cached), deletedPairs)
            /\ ( /\ NameSet(cached) = NameSet(current)
                 /\ PairSet(cached) \cup { Reversed(l) : l \in PairSet(cached) }
                      = PairSet(current) \cup { Reversed(l) : l \in PairSet(current) } )
                => diff = << [added |-> <<>>, deleted |-> <<>>],
                             [added |-> <<>>, deleted |-> <<>>] >>

\* Scenario 3 was diffed: the run-1 link a(Gi0/1)-b(Gi0/2) is gone and the
\* link a(Gi0/1)-c(Gi0/3) is new, while node ids and facts differ between
\* the two snapshots.
C4_Witness ==
    /\ diff_pc = "forward"
    /\ link_pairs(cached) = << << <<"a", Port("1")>>, <<"b", Port("2")>> >> >>
    /\ link_pairs(current) = << << <<"a", Port("1")>>, <<"c", Port("3")>> >> >>
    /\ diff[2].deleted = link_pairs(cached)
    /\ diff[2].added = link_pairs(current)
    /\ node_names(cached) = << <<"a">>, <<"b">> >>
    /\ node_names(current) = << <<"c">>, <<"a">>, <<"b">> >>
    /\ diff[1].added = << <<"c">> >>

(***************************************************************************)
(* good_luck_have_fun, one action per statement.                           *)
(***************************************************************************)
NoRun == [ok |-> FALSE, topology |-> <<>>]

\* The locals of a run that has not started.
FreshLocals ==
    /\ nornir_job_result = <<>> /\ GLOBAL_LLDP_DATA = <<>>
    /\ GLOBAL_FACTS = <<>> /\ TOPOLOGY_DETAILS = <<>>
    /\ TOPOLOGY_DICT = <<>> /\ CACHED_TOPOLOGY = <<>>
    /\ console = <<>> /\ cache_log = <<>> /\ raised = "none"

\* Every enumeration of a set: the orders in which "for host in
\* discovered_hosts" may visit it.
Enumerations(S) ==
    { f \in [1..Cardinality(S) -> S] : \A x \in S : \E i \in DOMAIN f : f[i] = x }

\* Line 302.
NormalizeResult ==
    /\ pc = "polled"
    /\ GLOBAL_LLDP_DATA' = normalize_result(nornir_job_result)[1]
    /\ GLOBAL_FACTS' = normalize_result(nornir_job_result)[2]
    /\ pc' = "normalized"
    /\ UNCHANGED <<run, raised, nornir_job_result, TOPOLOGY_DETAILS,
                   TOPOLOGY_DICT, CACHED_TOPOLOGY, cache_file, topology_file,
                   console, cache_log, last_run, diff_vars, if_vars>>

\* Lines 303-304.
ExtractDetails ==
    /\ pc = "normalized"
    /\ LET r == extract_lldp_details(GLOBAL_LLDP_DATA)
       IN  IF r.raised # "none"
           THEN /\ raised' = r.raised
                /\ pc' = "raised"
                /\ UNCHANGED TOPOLOGY_DETAILS
           ELSE /\ TOPOLOGY_DETAILS' = << r.discovered_hosts,
                                          r.global_interconnections,
                                          r.lldp_capabilities_dict,
                                          GLOBAL_FACTS >>
                /\ pc' = "extracted"
                /\ UNCHANGED raised
    /\ UNCHANGED <<run, nornir_job_result, GLOBAL_LLDP_DATA, GLOBAL_FACTS,
                   TOPOLOGY_DICT, CACHED_TOPOLOGY, cache_file, topology_file,
                   console, cache_log, last_run, diff_vars, if_vars>>

\* Line 305.
GenerateTopology ==
    /\ pc = "extracted"
    /\ \E hosts_in_order \in Enumerations(TOPOLOGY_DETAILS[1]) :
          LET r == generate_topology_json(hosts_in_order, TOPOLOGY_DETAILS[2],
                                          TOPOLOGY_DETAILS[3], TOPOLOGY_DETAILS[4])
          IN  IF r.raised # "none"
              THEN /\ raised' = r.raised
                   /\ pc' = "raised"
                   /\ UNCHANGED TOPOLOGY_DICT
              ELSE /\ TOPOLOGY_DICT' = r.topology_dict
                   /\ pc' = "built"
                   /\ UNCHANGED raised
    /\ UNCHANGED <<run, nornir_job_result, GLOBAL_LLDP_DATA, GLOBAL_FACTS,
                   TOPOLOGY_DETAILS, CACHED_TOPOLOGY, cache_file,
                   topology_file, console, cache_log, last_run, diff_vars,
                   if_vars>>

\* Line 306.
ReadCache ==
    /\ pc = "built"
    /\ CACHED_TOPOLOGY' = read_cached_topology(cache_file)
    /\ cache_log' = Append(cache_log, [op |-> "read", file |-> cache_file])
    /\ pc' = "cache_read"
    /\ UNCHANGED <<run, raised, nornir_job_result, GLOBAL_LLDP_DATA,
                   GLOBAL_FACTS, TOPOLOGY_DETAILS, TOPOLOGY_DICT, cache_file,
                   topology_file, console, last_run, diff_vars, if_vars>>

\* Line 307.
WriteTopologyFile ==
    /\ pc = "cache_read"
    /\ topology_file' = write_topology_file(TOPOLOGY_DICT)
    /\ pc' = "file_written"
    /\ UNCHANGED <<run, raised, nornir_job_result, GLOBAL_LLDP_DATA,
                   GLOBAL_FACTS, TOPOLOGY_DETAILS, TOPOLOGY_DICT,
                   CACHED_TOPOLOGY, cache_file, console, cache_log, last_run,
                   diff_vars, if_vars>>

\* Line 308.
WriteTopologyCache ==
    /\ pc = "file_written"
    /\ LET r == write_topology_cache(TOPOLOGY_DICT, cache_file)
       IN  IF r.raised # "none"
           THEN /\ raised' = r.raised
                /\ pc' = "raised"
                /\ UNCHANGED <<cache_file, cache_log>>
           ELSE /\ cache_file' = r.file
                /\ cache_log' = Append(cache_log,
                                       [op |-> "write", file |-> r.file])
                /\ pc' = "cache_written"
                /\ UNCHANGED raised
    /\ UNCHANGED <<run, nornir_job_result, GLOBAL_LLDP_DATA, GLOBAL_FACTS,
                   TOPOLOGY_DETAILS, TOPOLOGY_DICT, CACHED_TOPOLOGY,
                   topology_file, console, last_run, diff_vars, if_vars>>

\* Lines 309-310.
ReportDiff ==
    /\ pc = "cache_written"
    /\ IF ~PyTruthy(CACHED_TOPOLOGY)
       THEN /\ pc' = "diffed"
            /\ UNCHANGED <<raised, console>>
       ELSE IF cached_error(CACHED_TOPOLOGY) # "none"
       THEN /\ raised' = cached_error(CACHED_TOPOLOGY)
            /\ pc' = "raised"
            /\ UNCHANGED console
       ELSE /\ console' = console \o print_diff(
                   get_topology_diff(cached_view(CACHED_TOPOLOGY), TOPOLOGY_DICT))
            /\ pc' = "diffed"
            /\ UNCHANGED raised
    /\ UNCHANGED <<run, nornir_job_result, GLOBAL_LLDP_DATA, GLOBAL_FACTS,
                   TOPOLOGY_DETAILS, TOPOLOGY_DICT, CACHED_TOPOLOGY,
                   cache_file, topology_file, cache_log, last_run, diff_vars,
                   if_vars>>

\* Line 311.
Finish ==
    /\ pc = "diffed"
    /\ console' = Append(console, Line("open main.html to view the topology", <<>>))
    /\ pc' = "done"
    /\ UNCHANGED <<run, raised, nornir_job_result, GLOBAL_LLDP_DATA,
                   GLOBAL_FACTS, TOPOLOGY_DETAILS, TOPOLOGY_DICT,
                   CACHED_TOPOLOGY, cache_file, topology_file, cache_log,
                   last_run, diff_vars, if_vars>>

(***************************************************************************)
(* Collection results                                                      *)
(***************************************************************************)
FactsA == [fqdn |-> "a.example", hostname |-> "a", model |-> "X",
           serial_number |-> "1"]
FactsB == [fqdn |-> "b.example", hostname |-> "b", model |-> "Y",
           serial_number |-> "2"]
FactsHostnameOnly == [fqdn |-> "", hostname |-> "b.example", model |-> "Z",
                      serial_number |-> "3"]
FactsNoIdentity == [fqdn |-> "", hostname |-> "", serial_number |-> "4"]
FactsChoices == {FactsA, FactsB, FactsHostnameOnly, FactsNoIdentity}

Neighbor(name, port, capab) ==
    [remote_system_name |-> name, remote_port |-> port,
     remote_system_enable_capab |-> capab]
LongPort(n) == GigabitEthernet \o <<"0", "/", n>>

LldpShortToB ==
    << <<Port("1"), <<Neighbor("b.example", Port("2"), <<"switch">>)>> >> >>
LldpLongToB ==
    << <<LongPort("1"), <<Neighbor("b.example", LongPort("2"), <<"bridge">>)>> >> >>
LldpShortToA ==
    << <<Port("2"), <<Neighbor("a.example", Port("1"), <<"router">>)>> >> >>
LldpLongToA ==
    << <<LongPort("2"),
         <<Neighbor("a.example", LongPort("1"), <<"router", "switch">>)>> >> >>
LldpUnnamed ==
    << <<Port("1"), <<Neighbor("", Port("2"), <<"switch">>)>> >> >>
LldpNoCapability ==
    << <<Port("1"), <<Neighbor("b.example", Port("2"), <<>>)>> >> >>
LldpSeveral ==
    << <<Te \o <<"1">>, <<Neighbor("b.example", Te \o <<"2">>, <<"station">>),
                          Neighbor("a.example", <<"P","o","1">>, <<"other">>)>> >>,
       <<Port("1"), <<Neighbor("b.example", Port("2"), <<"switch">>)>> >> >>
LldpChoices == {<<>>, LldpShortToB, LldpLongToB, LldpShortToA, LldpLongToA,
                LldpUnnamed, LldpNoCapability, LldpSeveral}

Failed(device) ==
    [device |-> device, failed |-> TRUE, facts |-> <<>>,
     lldp_neighbors_detail |-> <<>>]
Polled(device, facts, lldp) ==
    [device |-> device, failed |-> FALSE, facts |-> facts,
     lldp_neighbors_detail |-> lldp]
Outcomes(device) ==
    {Failed(device)}
    \cup { Polled(device, f, l) : f \in FactsChoices, l \in LldpChoices }

Inventories == { <<"A">>, <<"A", "B">>, <<"B", "A">>,
                 <<"A", "b.example">>, <<"b.example", "A">> }
ResultsOf(inventory) ==
    { r \in [1..Len(inventory) -> UNION { Outcomes(inventory[i]) :
                                            i \in 1..Len(inventory) }] :
        \A i \in 1..Len(inventory) : r[i].device = inventory[i] }
BuildResults == UNION { ResultsOf(inventory) : inventory \in Inventories }

(***************************************************************************)
(* Specification SpecBuild: normalize_result, extract_lldp_details and     *)
(* generate_topology_json on every collection result of BuildResults.      *)
(***************************************************************************)
InitBuild ==
    /\ pc = "polled" /\ run = 1
    /\ nornir_job_result \in BuildResults
    /\ GLOBAL_LLDP_DATA = <<>> /\ GLOBAL_FACTS = <<>>
    /\ TOPOLOGY_DETAILS = <<>> /\ TOPOLOGY_DICT = <<>>
    /\ CACHED_TOPOLOGY = <<>> /\ console = <<>> /\ cache_log = <<>>
    /\ raised = "none"
    /\ cache_file = AbsentFile /\ topology_file = AbsentFile
    /\ last_run = NoRun
    /\ DiffUnused /\ IfUnused

NextBuild == NormalizeResult \/ ExtractDetails \/ GenerateTopology
SpecBuild == InitBuild /\ [][NextBuild]_vars

\* A link end with its interface name in long form.
Canonical(link_end) == <<link_end[1], if_fullname(link_end[2])>>

\* How many entries of a link list join (a, if1) and (b, if2).
LinksBetween(interconnections, a, if1, b, if2) ==
    Cardinality({ k \in 1..Len(interconnections) :
        {Canonical(interconnections[k][1]), Canonical(interconnections[k][2])}
            = {Canonical(<<a, if1>>), Canonical(<<b, if2>>)} })

\* Host `host` reports, on local interface `interface`, a neighbor `name`
\* with remote port `port`.
Reports(lldp_data_dict, host, interface, name, port) ==
    \E i \in 1..Len(lldp_data_dict) :
        /\ lldp_data_dict[i][1] = host
        /\ \E e \in 1..Len(lldp_data_dict[i][2]) :
              /\ lldp_data_dict[i][2][e][1] = interface
              /\ \E n \in 1..Len(lldp_data_dict[i][2][e][2]) :
                    /\ lldp_data_dict[i][2][e][2][n].remote_system_name = name
                    /\ lldp_data_dict[i][2][e][2][n].remote_port = port

ReportedNames == {"a.example", "b.example"}
ReportedPorts == {Port("1"), Port("2"), LongPort("1"), LongPort("2")}

\* C1 as stated: when A reports B on if1 with remote port if2 and B reports A
\* on if2 with remote port if1, for short or long interface names, the link
\* list returned by extract_lldp_details holds exactly one link between
\* (A, if1) and (B, if2), whichever device comes first.
C1_DedupSymmetric ==
    pc = "extracted" =>
        \A a \in ReportedNames : \A b \in ReportedNames \ {a} :
            \A if1 \in ReportedPorts, if2 \in ReportedPorts :
                ( /\ Reports(GLOBAL_LLDP_DATA, a, if1, b, if2)
                  /\ Reports(GLOBAL_LLDP_DATA, b, if2, a, if1) )
                => LinksBetween(TOPOLOGY_DETAILS[2], a, if1, b, if2) = 1

Nodes == TOPOLOGY_DICT.nodes
Links == TOPOLOGY_DICT.links

\* C2: in the Topology built from the output of extract_lldp_details, every
\* link's srcDevice and tgtDevice name a node, its source and target are the
\* ids of those nodes, node ids are exactly 0..|nodes|-1 without repeats and
\* link ids are exactly 0..|links|-1 without repeats.
C2_TopologyWellFormed ==
    pc = "built" =>
        /\ \A l \in 1..Len(Links) :
              /\ \E n \in 1..Len(Nodes) : Nodes[n].name = Links[l].srcDevice
              /\ \E n \in 1..Len(Nodes) : Nodes[n].name = Links[l].tgtDevice
              /\ \A n \in 1..Len(Nodes) :
                    /\ Nodes[n].name = Links[l].srcDevice
                          => Nodes[n].id = Links[l].source
                    /\ Nodes[n].name = Links[l].tgtDevice
                          => Nodes[n].id = Links[l].target
        /\ { Nodes[n].id : n \in 1..Len(Nodes) } = 0..(Len(Nodes) - 1)
        /\ \A n, m \in 1..Len(Nodes) : Nodes[n].id = Nodes[m].id => n = m
        /\ { Links[l].id : l \in 1..Len(Links) } = 0..(Len(Links) - 1)
        /\ \A l, k \in 1..Len(Links) : Links[l].id = Links[k].id => l = k

\* A Topology of three nodes and two links was built, one link ending at a
\* node that is not the first one enumerated.
C2_Witness ==
    /\ pc = "built"
    /\ Len(Nodes) >= 3 /\ Len(Links) >= 2
    /\ \E l \in 1..Len(Links) : Links[l].source > 0 /\ Links[l].target > 0

FailedDevices ==
    { nornir_job_result[i].device :
        i \in { j \in 1..Len(nornir_job_result) : nornir_job_result[j].failed } }
PolledOutputs ==
    { nornir_job_result[i] :
        i \in { j \in 1..Len(nornir_job_result) : ~nornir_job_result[j].failed } }
ResolvedIdentities == { device_fqdn(o.device, o.facts) : o \in PolledOutputs }
\* The identities of the polled devices whose LLDP data name `name`.
ReportersOf(name) ==
    { device_fqdn(o.device, o.facts) :
        o \in { q \in PolledOutputs :
                  \E e \in 1..Len(q.lldp_neighbors_detail) :
                     \E n \in 1..Len(q.lldp_neighbors_detail[e][2]) :
                        q.lldp_neighbors_detail[e][2][n].remote_system_name
                            = name } }

C9_NoFatalError == raised = "none"

Scenario1(b_name) ==
    \/ nornir_job_result = << Polled("A", FactsA, LldpShortToB), Failed(b_name) >>
    \/ nornir_job_result = << Failed(b_name), Polled("A", FactsA, LldpShortToB) >>
NodeFacts ==
    { [name |-> Nodes[n].name, model |-> Nodes[n].model,
       serial_number |-> Nodes[n].serial_number, icon |-> Nodes[n].icon] :
        n \in 1..Len(Nodes) }
NodeA == [name |-> "a.example", model |-> "X", serial_number |-> "1",
          icon |-> "unknown"]
NodeB == [name |-> "b.example", model |-> "n/a", serial_number |-> "n/a",
          icon |-> "switch"]
Placeholder(name) == [name |-> name, model |-> "n/a", serial_number |-> "n/a",
                      icon |-> "unknown"]
Scenario1Link ==
    /\ Len(Links) = 1
    /\ Links[1].srcDevice = "a.example" /\ Links[1].srcIfName = Port("1")
    /\ Links[1].tgtDevice = "b.example" /\ Links[1].tgtIfName = Port("2")

MaxRuns == 2

RunResults ==
    { << Polled("A", FactsA, LldpShortToB), Failed("b.example") >>,
      << Polled("A", FactsA, LldpSeveral), Polled("B", FactsB, LldpShortToA) >>,
      << Polled("A", FactsA, LldpNoCapability) >>,
      << Failed("A") >> }

CacheFiles ==
    { AbsentFile, Directory, TextFile(NotJson),
      TextFile(Json(JObject(<<>>))),
      TextFile(Json(JNull)),
      TextFile(Json(JObject(<< Member("foo", JNumber(1)) >>))),
      TextFile(Json(JArray(<< JNumber(1) >>))),
      TextFile(Json(JObject(<< Member("links", JArray(<<>>)) >>))),
      TextFile(Json(json_dumps(MakeTopology(<<"a.example">>, <<>>)))) }

Init ==
    /\ pc = "start" /\ run = 1
    /\ FreshLocals
    /\ cache_file \in CacheFiles
    /\ topology_file = AbsentFile
    /\ last_run = NoRun
    /\ DiffUnused /\ IfUnused

\* Line 301: the polling collaborator returns the collection result.
GetHostData ==
    /\ pc = "start"
    /\ nornir_job_result' \in RunResults
    /\ pc' = "polled"
    /\ UNCHANGED <<run, raised, GLOBAL_LLDP_DATA, GLOBAL_FACTS,
                   TOPOLOGY_DETAILS, TOPOLOGY_DICT, CACHED_TOPOLOGY,
                   cache_file, topology_file, console, cache_log, last_run,
                   diff_vars, if_vars>>

\* Lines 314-315: the script is started again after the previous process
\* ended, normally or by an exception; only the two files survive.
NextRun ==
    /\ pc \in {"done", "raised"}
    /\ run < MaxRuns
    /\ run' = run + 1
    /\ last_run' = IF pc = "done" THEN [ok |-> TRUE, topology |-> TOPOLOGY_DICT]
                   ELSE NoRun
    /\ pc' = "start"
    /\ nornir_job_result' = <<>> /\ GLOBAL_LLDP_DATA' = <<>>
    /\ GLOBAL_FACTS' = <<>> /\ TOPOLOGY_DETAILS' = <<>>
    /\ TOPOLOGY_DICT' = <<>> /\ CACHED_TOPOLOGY' = <<>>
    /\ console' = <<>> /\ cache_log' = <<>> /\ raised' = "none"
    /\ UNCHANGED <<cache_file, topology_file, diff_vars, if_vars>>

Next ==
    \/ GetHostData \/ NormalizeResult \/ ExtractDetails \/ GenerateTopology
    \/ ReadCache \/ WriteTopologyFile \/ WriteTopologyCache \/ ReportDiff
    \/ Finish \/ NextRun
Spec == Init /\ [][Next]_vars

AfterRead == {"cache_read", "file_written", "cache_written", "diffed", "done"}
AfterWrite == {"cache_written", "diffed", "done"}
IsPrefix(p, seq) == Len(p) <= Len(seq) /\ SubSeq(seq, 1, Len(p)) = p

\* C5: in each run the cache is read before it is overwritten and it is
\* overwritten exactly once, with the Topology built in that run; after a
\* successful run the cache holds that run's Topology, and in the run after a
\* successful run the previous snapshot read from the cache, and diffed
\* against the new Topology, is the earlier run's Topology.
C5_CacheLifecycle ==
    /\ pc \notin AfterRead \cup {"raised"} => cache_log = <<>>
    /\ (pc \in AfterRead \ AfterWrite) =>
          Len(cache_log) = 1 /\ cache_log[1].op = "read"
    /\ pc \in AfterWrite =>
          /\ Len(cache_log) = 2
          /\ cache_log[1].op = "read" /\ cache_log[2].op = "write"
          /\ cache_file = cache_log[2].file
          /\ cache_file.kind = "file" /\ cache_file.content.syntax = "json"
          /\ py_plain(json_loads(cache_file.content.value)) = TOPOLOGY_DICT
    /\ (last_run.ok /\ pc \in AfterRead) =>
          /\ cache_log[1].file.kind = "file"
          /\ py_plain(CACHED_TOPOLOGY) = last_run.topology
    /\ (last_run.ok /\ pc \in {"diffed", "done"}) =>
          IsPrefix(print_diff(get_topology_diff(last_run.topology, TOPOLOGY_DICT)),
                   console)

\* A second successful run ended whose Topology differs from the first
\* run's, and the changes were printed.
C5_Witness ==
    /\ run = 2 /\ pc = "done" /\ last_run.ok
    /\ last_run.topology # TOPOLOGY_DICT
    /\ console[1].text = "changes found in the topology"

IsSerializedTopology(doc) ==
    /\ doc.t = "object"
    /\ {"nodes", "links"} \subseteq { doc.v[i].key : i \in 1..Len(doc.v) }
Unusable(file) ==
    \/ file.kind # "file"
    \/ file.content.syntax # "json"
    \/ ~IsSerializedTopology(file.content.value)

\* C6 as stated: when the cache file read by a run is absent, not a regular
\* file or malformed, no error is raised, no diff is printed, and the run
\* writes the render file and the new cache.
C6_UnusableCacheIsEmptyCache ==
    ( /\ Len(cache_log) >= 1
      /\ cache_log[1].op = "read"
      /\ Unusable(cache_log[1].file) ) =>
        /\ raised = "none"
        /\ pc \in {"diffed", "done"} =>
              /\ \A i \in 1..Len(console) :
                    console[i].text = "open main.html to view the topology"
              /\ topology_file = write_topology_file(TOPOLOGY_DICT)
              /\ cache_file = TextFile(Json(json_dumps(TOPOLOGY_DICT)))

\* The case of C6 for a regular file holding well-formed JSON that is not a
\* serialized Topology: no error is raised and no diff is printed.
C6_MalformedJsonIsEmptyCache ==
    ( /\ Len(cache_log) >= 1
      /\ cache_log[1].op = "read"
      /\ cache_log[1].file.kind = "file"
      /\ cache_log[1].file.content.syntax = "json"
      /\ ~IsSerializedTopology(cache_log[1].file.content.value) ) =>
        /\ raised = "none"
        /\ pc \in {"diffed", "done"} =>
              \A i \in 1..Len(console) :
                  console[i].text = "open main.html to view the topology"

====
